---- MODULE Spec2Model ----
(***************************************************************************)
(* Progress tracking of the YogaFlow backend: the in-memory progress store *)
(* (MemStorage.userProgress), the Mongo collection user_progress, the      *)
(* clock, and the two handlers that compute streaks from a completion      *)
(* history, POST /api/progress and GET /api/progress/stats/:userId.        *)
(*                                                                         *)
(* Time is in milliseconds, counted from local midnight of the first day   *)
(* of the modelled window (BaseEpochDay days after 1970-01-01).  The local *)
(* time zone has a constant offset (no daylight-saving change inside the   *)
(* window), so a local calendar day is a block of MsPerDay milliseconds.   *)
(***************************************************************************)
EXTENDS Integers, Sequences, FiniteSets

VARIABLES
    user_progress,  \* Mongo collection "user_progress": documents, in insertion order
    userProgress,   \* MemStorage.userProgress: records, in insertion order of the Map
    db,             \* getDb() # null: the Mongo connection made at start-up
    clock,          \* what new Date() reads
    res,            \* the response written for the progress request just handled
    users,          \* MemStorage.users: records, in insertion order of the Map
    mongoUsers,     \* Mongo collection "users" (unique index on username)
    otps,           \* Mongo collection "otps": the entry of each username
    inflight,       \* the register and verify requests that wait for bcrypt.hash
    ares,           \* the response written for the auth request just handled
    mail,           \* the email the request just handled tried to send
    nextSerial,     \* how many verification codes have been issued
    issued,         \* per username, the code request-code issued last
    spent,          \* the issued codes a verify has succeeded with
    changedPw       \* per username, the password of the last successful change

authData == <<users, mongoUsers, otps, inflight, nextSerial, issued, spent, changedPw>>

vars == <<user_progress, userProgress, db, clock, res,
          users, mongoUsers, otps, inflight, ares, mail, nextSerial, issued, spent, changedPw>>

----------------------------------------------------------------------------
(* Bounds of the model *)

NumDays == 3        \* calendar days in the modelled window
MaxDocs == 3        \* records a store holds at most
BaseEpochDay == 19781   \* first day of the window: 2024-02-28

MaxInflight == 2    \* register and verify requests in flight at once
MaxIssues == 2      \* verification codes issued

(* 1000 * 60 * 60 * 24 *)
MsPerDay == 86400000

(* 10 * 60 * 1000: how long a verification code is good for *)
OtpTtlMs == 600000

----------------------------------------------------------------------------
(* Instants and raw completedAt values *)

\* The instants of a day at which something happens: its first millisecond
\* (00:00:00.000) and its last one (23:59:59.999).
TimesOfDay == {0, MsPerDay - 1}

Times == { d * MsPerDay + ms : d \in 0..(NumDays - 1), ms \in TimesOfDay }

\* toISOString() of an instant: a string that new Date() parses back to it.
ToISOString(t) == [kind |-> "iso", t |-> t]

\* What a stored completedAt can be: an ISO string, null/undefined, or a
\* string that is no date.
RawCompletedAt ==
    { ToISOString(t) : t \in Times } \cup { [kind |-> "null", t |-> 0], [kind |-> "garbage", t |-> 0] }

UserIds == {"u1"}
\* The users progress is posted for.
PostUserIds == {"u1", "u2"}
NoUser == "null"

----------------------------------------------------------------------------
(* Date: new Date(string), getTime, the local calendar fields *)

InvalidDate == [valid |-> FALSE, time |-> 0]

\* new Date(p.completedAt) without the ?? "": a null is read as a date (in
\* JavaScript the epoch), put here at the first instant of the window.
NewDate_NoCoalesce(completedAt) ==
    IF completedAt.kind \in {"iso", "null"}
      THEN [valid |-> TRUE, time |-> completedAt.t] ELSE InvalidDate

\* new Date(p.completedAt ?? ""): null and undefined become "", which is an
\* Invalid Date like every other unparseable string.
NewDate(completedAt) ==
    IF completedAt.kind = "iso" THEN [valid |-> TRUE, time |-> completedAt.t] ELSE InvalidDate

\* !isNaN(d.getTime())
IsValidDate(d) == d.valid

\* Math.round(num / den) for den > 0: the nearest integer, halves rounded up.
MathRound(num, den) == (2 * num + den) \div (2 * den)

\* Days from 1970-01-01 of the local calendar day an instant lies in.
EpochDay(t) == BaseEpochDay + (t \div MsPerDay)

\* The civil date of a day number (proleptic Gregorian calendar).
CivilFromDays(z0) ==
    LET z   == z0 + 719468
        era == z \div 146097
        doe == z - era * 146097
        yoe == (doe - (doe \div 1460) + (doe \div 36524) - (doe \div 146096)) \div 365
        doy == doe - (365 * yoe + (yoe \div 4) - (yoe \div 100))
        mp  == (5 * doy + 2) \div 153
        d   == doy - ((153 * mp + 2) \div 5) + 1
        m   == IF mp < 10 THEN mp + 3 ELSE mp - 9
        y   == yoe + era * 400 + (IF m <= 2 THEN 1 ELSE 0)
    IN  [year |-> y, month |-> m - 1, date |-> d]

getFullYear(t) == CivilFromDays(EpochDay(t)).year
getMonth(t) == CivilFromDays(EpochDay(t)).month
getDate(t) == CivilFromDays(EpochDay(t)).date

----------------------------------------------------------------------------
(* The streak computation, as both handlers write it *)

RECURSIVE InsertSorted(_, _)
InsertSorted(s, t) ==
    IF s = <<>> THEN <<t>>
    ELSE IF t < Head(s) THEN <<t>> \o s
    ELSE <<Head(s)>> \o InsertSorted(Tail(s), t)

\* .sort((a, b) => a.getTime() - b.getTime()): ascending, stable
RECURSIVE SortByTime(_)
SortByTime(s) ==
    IF s = <<>> THEN <<>>
    ELSE InsertSorted(SortByTime(SubSeq(s, 1, Len(s) - 1)), s[Len(s)])

RECURSIVE MapNewDate(_)
MapNewDate(docs) ==
    IF docs = <<>> THEN <<>>
    ELSE <<NewDate(Head(docs).completedAt)>> \o MapNewDate(Tail(docs))

RECURSIVE GetTimes(_)
GetTimes(ds) == IF ds = <<>> THEN <<>> ELSE <<Head(ds).time>> \o GetTimes(Tail(ds))

\* The dates without the .sort(...)
Dates_Unsorted(docs) == GetTimes(SelectSeq(MapNewDate(docs), IsValidDate))

\* .map(new Date).filter(valid).sort(by time): the instants of the valid dates
Dates(docs) == SortByTime(GetTimes(SelectSeq(MapNewDate(docs), IsValidDate)))

\* Math.round((dates[i].getTime() - dates[i - 1].getTime()) / (1000 * 60 * 60 * 24))
DiffDays(later, earlier) == MathRound(later - earlier, MsPerDay)

\* The loop "for (i = dates.length - 1; i > 0; i--)", entered at index i (1-based).
RECURSIVE StreakLoop(_, _, _)
StreakLoop(dates, i, streak) ==
    IF i <= 1 THEN streak
    ELSE LET diffDays == DiffDays(dates[i], dates[i - 1])
         IN  IF diffDays = 1 THEN StreakLoop(dates, i - 1, streak + 1)
             ELSE IF diffDays = 0 THEN StreakLoop(dates, i - 1, streak)
             ELSE streak

\* The streak without the "if (dates.length)" around it
CurrentStreak_NoEmptyCheck(dates) == StreakLoop(dates, Len(dates), 1)

CurrentStreak(dates) == IF Len(dates) > 0 THEN StreakLoop(dates, Len(dates), 1) ELSE 0

Max2(a, b) == IF a >= b THEN a ELSE b

\* The loop without the Math.max(longestStreak, run) that follows it
RECURSIVE LongestLoop_NoFinalMax(_, _, _, _)
LongestLoop_NoFinalMax(dates, i, longestStreak, run) ==
    IF i > Len(dates) THEN longestStreak
    ELSE IF i = 1 THEN LongestLoop_NoFinalMax(dates, i + 1, longestStreak, 1)
    ELSE LET diff == DiffDays(dates[i], dates[i - 1])
         IN  IF diff = 1 THEN LongestLoop_NoFinalMax(dates, i + 1, longestStreak, run + 1)
             ELSE IF diff = 0 THEN LongestLoop_NoFinalMax(dates, i + 1, longestStreak, run)
             ELSE LongestLoop_NoFinalMax(dates, i + 1, Max2(longestStreak, run), 1)

\* The loop "for (i = 0; i < dates.length; i++)", entered at index i (1-based).
RECURSIVE LongestLoop(_, _, _, _)
LongestLoop(dates, i, longestStreak, run) ==
    IF i > Len(dates) THEN Max2(longestStreak, run)
    ELSE IF i = 1 THEN LongestLoop(dates, i + 1, longestStreak, 1)
    ELSE LET diff == DiffDays(dates[i], dates[i - 1])
         IN  IF diff = 1 THEN LongestLoop(dates, i + 1, longestStreak, run + 1)
             ELSE IF diff = 0 THEN LongestLoop(dates, i + 1, longestStreak, run)
             ELSE LongestLoop(dates, i + 1, Max2(longestStreak, run), 1)

LongestStreak(dates) == LongestLoop(dates, 1, 0, 0)

isSameDay(a, b) ==
    /\ getFullYear(a) = getFullYear(b)
    /\ getMonth(a) = getMonth(b)
    /\ getDate(a) = getDate(b)

InMonthOf(now, d) == getMonth(d) = getMonth(now) /\ getFullYear(d) = getFullYear(now)

\* The flag taken from the first date of the history, not of the month
IsFirstOfMonth_NoMonthFilter(dates, now) ==
    IF dates # <<>> THEN isSameDay(dates[1], now) ELSE FALSE

IsFirstOfMonth(dates, now) ==
    LET monthDates == SelectSeq(dates, LAMBDA d : InMonthOf(now, d))
    IN  IF monthDates # <<>> THEN isSameDay(monthDates[1], now) ELSE FALSE

----------------------------------------------------------------------------
(* Stores *)

\* getUserProgress without its filter
getUserProgress_All(store, userId) == store

\* MemStorage.getUserProgress
getUserProgress(store, userId) == SelectSeq(store, LAMBDA p : p.userId = userId)

\* db.collection("user_progress").find({ userId }).toArray()
FindByUser(coll, userId) == SelectSeq(coll, LAMBDA p : p.userId = userId)

\* The record MemStorage.createUserProgress builds
NewProgress(progress, now) ==
    [userId |-> progress.userId, completedAt |-> ToISOString(now)]

----------------------------------------------------------------------------
(* Responses *)

NoRes == [route |-> "none", userId |-> "", status |-> 0, body |-> <<>>]

\* The stats with a current streak that lapses when the last completion is
\* older than yesterday
StatsBody_AnchoredToNow(docs, now) ==
    LET dates == Dates(docs)
        live == dates # <<>> /\ DiffDays(now, dates[Len(dates)]) <= 1
    IN  [currentStreak |-> IF live THEN CurrentStreak(dates) ELSE 0,
         longestStreak |-> LongestStreak(dates),
         isFirstOfMonth |-> IsFirstOfMonth(dates, now)]

StatsBody(docs, now) ==
    LET dates == Dates(docs)
    IN  [currentStreak |-> CurrentStreak(dates),
         longestStreak |-> LongestStreak(dates),
         isFirstOfMonth |-> IsFirstOfMonth(dates, now)]

\* GET /api/progress/stats/:userId
StatsResponse(connected, coll, userId, now) ==
    IF ~connected
      THEN [route |-> "stats", userId |-> userId, status |-> 500, body |-> <<>>]
      ELSE [route |-> "stats", userId |-> userId, status |-> 200,
            body |-> StatsBody(FindByUser(coll, userId), now)]

\* POST /api/progress has its own copy of the computation.
\* allProgress.map(new Date).filter(valid).sort(by time)
PostDates(allProgress) == SortByTime(GetTimes(SelectSeq(MapNewDate(allProgress), IsValidDate)))

\* The loop of the copy with a same-day difference ending the streak
RECURSIVE PostStreakLoop_BreakOnSameDay(_, _, _)
PostStreakLoop_BreakOnSameDay(dates, i, streak) ==
    IF i <= 1 THEN streak
    ELSE LET diffDays == MathRound(dates[i] - dates[i - 1], MsPerDay)
         IN  IF diffDays = 1 THEN PostStreakLoop_BreakOnSameDay(dates, i - 1, streak + 1)
             ELSE streak

\* The loop "for (i = dates.length - 1; i > 0; i--)" of the copy
RECURSIVE PostStreakLoop(_, _, _)
PostStreakLoop(dates, i, streak) ==
    IF i <= 1 THEN streak
    ELSE LET diffDays == MathRound(dates[i] - dates[i - 1], MsPerDay)
         IN  IF diffDays = 1 THEN PostStreakLoop(dates, i - 1, streak + 1)
             ELSE IF diffDays = 0 THEN PostStreakLoop(dates, i - 1, streak)
             ELSE streak

PostStreak(dates) == IF Len(dates) > 0 THEN PostStreakLoop(dates, Len(dates), 1) ELSE 0

PostIsFirstOfMonth(dates, now) ==
    LET currentMonth == getMonth(now)
        currentYear == getFullYear(now)
        monthDates == SelectSeq(dates, LAMBDA d : getMonth(d) = currentMonth
                                                  /\ getFullYear(d) = currentYear)
    IN  IF monthDates # <<>>
          THEN /\ getFullYear(monthDates[1]) = getFullYear(now)
               /\ getMonth(monthDates[1]) = getMonth(now)
               /\ getDate(monthDates[1]) = getDate(now)
          ELSE FALSE

\* The streak and the first-of-month flag POST /api/progress answers with
PostBody(allProgress, newProgress, now) ==
    LET dates == PostDates(allProgress)
    IN  [completedAt |-> newProgress.completedAt,
         streak |-> PostStreak(dates),
         isFirstOfMonth |-> PostIsFirstOfMonth(dates, now)]

----------------------------------------------------------------------------
(* Users, passwords, verification codes *)

UserNames == {"alice"}
Emails == {"a@x", "m@x"}
NoEmail == ""
Passwords == {"p1", "p2"}
Codes == {"111111", "222222"}
Purposes == {"signup", "password-change", "other"}

\* randomUUID() of the n-th user created
UserIdSupply == <<"u1", "u2", "u3", "u4">>

\* The instants at which the auth requests arrive: when a code is issued,
\* at the last instant it is good for, and one millisecond later.
AuthTimes == {0, OtpTtlMs, OtpTtlMs + 1}

\* bcrypt.hash(password, 10) and bcrypt.compare(password, hashed)
Hash(password) == <<"bcrypt", password>>
Compare(password, hashed) == hashed = Hash(password)

NoUserRecord == [id |-> "", username |-> "", password |-> <<>>, email |-> ""]

\* Array.find / findOne: the first record with the username, or none
RECURSIVE FindByUsername(_, _)
FindByUsername(store, username) ==
    IF store = <<>> THEN NoUserRecord
    ELSE IF Head(store).username = username THEN Head(store)
    ELSE FindByUsername(Tail(store), username)

\* MemStorage.getUserByUsername
getUserByUsername(store, username) == FindByUsername(store, username)

\* MemStorage.getUser
RECURSIVE getUser(_, _)
getUser(store, id) ==
    IF store = <<>> THEN NoUserRecord
    ELSE IF Head(store).id = id THEN Head(store)
    ELSE getUser(Tail(store), id)

\* MemStorage.createUser: the record stored under a new id
NewUser(store, username, hashedPassword, email) ==
    [id |-> UserIdSupply[Len(store) + 1], username |-> username,
     password |-> hashedPassword, email |-> email]

\* db.collection("users").updateOne({ username }, { $set: { password } }):
\* the first document with the username gets the password
RECURSIVE UpdatePassword(_, _, _)
UpdatePassword(coll, username, hashedPassword) ==
    IF coll = <<>> THEN <<>>
    ELSE IF Head(coll).username = username
           THEN <<[Head(coll) EXCEPT !.password = hashedPassword]>> \o Tail(coll)
    ELSE <<Head(coll)>> \o UpdatePassword(Tail(coll), username, hashedPassword)

NoOtp == [otp |-> "", email |-> "", expiresAt |-> 0, serial |-> 0]

\* findOne({ username }): the entry of the username, whatever its email
FindOtp_ByUsername(coll, username, email) == coll[username]

\* db.collection("otps").findOne({ username, email })
FindOtp(coll, username, email) ==
    IF coll[username] # NoOtp /\ coll[username].email = email THEN coll[username] ELSE NoOtp

\* db.collection("otps").deleteOne({ username, email })
DeleteOtp(coll, username, email) ==
    IF coll[username] # NoOtp /\ coll[username].email = email
      THEN [coll EXCEPT ![username] = NoOtp] ELSE coll

\* db.collection("otps").updateOne({ username }, { $set: ... }, { upsert: true })
UpsertOtp(coll, username, entry) == [coll EXCEPT ![username] = entry]

NoIssue == [code |-> "", email |-> "", at |-> 0, serial |-> 0]

NoReq == [kind |-> "idle", username |-> "", email |-> "", password |-> "",
          code |-> "", purpose |-> "", serial |-> 0]

Req(kind, username, email, password, code, purpose, serial) ==
    [kind |-> kind, username |-> username, email |-> email, password |-> password,
     code |-> code, purpose |-> purpose, serial |-> serial]

NoAres == [route |-> "none", status |-> 0, message |-> "",
           username |-> "", password |-> "", serial |-> 0]

\* A response, with what identifies the request it answers: the username,
\* the password a login was tried with, the issued code a verify passed with.
Answer(route, status, message, req) ==
    [route |-> route, status |-> status, message |-> message,
     username |-> req.username,
     password |-> IF route = "login" THEN req.password ELSE "",
     serial |-> req.serial]

NoMail == [kind |-> "none", to |-> "", outcome |-> ""]

\* What becomes of a send: SMTP_HOST is unset and nothing is sent, the mail
\* server accepts the mail, or sendMail throws.
SendOutcomes == {"disabled", "sent", "failed"}

----------------------------------------------------------------------------
(* Actions *)

\* Request bodies of POST /api/progress: one the schema accepts or rejects,
\* with a userId or without one.
PostBodies == [valid : BOOLEAN, userId : PostUserIds \cup {NoUser}]

Init ==
    /\ user_progress = <<>>
    /\ userProgress = <<>>
    /\ db \in BOOLEAN
    /\ clock = 0
    /\ res = NoRes
    /\ users = <<>>
    /\ mongoUsers = <<>>
    /\ otps = [u \in UserNames |-> NoOtp]
    /\ inflight = [i \in 1..MaxInflight |-> NoReq]
    /\ ares = NoAres
    /\ mail = NoMail
    /\ nextSerial = 0
    /\ issued = [u \in UserNames |-> NoIssue]
    /\ spent = {}
    /\ changedPw = [u \in UserNames |-> ""]

\* Time passes; the response of the last request has been sent.
Tick ==
    /\ \E t \in Times : t > clock /\ clock' = t
    /\ res' = NoRes
    /\ UNCHANGED <<user_progress, userProgress, db>>
    /\ ares' = NoAres
    /\ mail' = NoMail
    /\ UNCHANGED authData

\* A document reaches the collection user_progress: the mirror of a progress
\* record or a write of any other client of the database, with a completedAt
\* of any form and in any order.
MongoInsert(userId, completedAt) ==
    /\ db
    /\ Len(user_progress) < MaxDocs
    /\ user_progress' = Append(user_progress, [userId |-> userId, completedAt |-> completedAt])
    /\ res' = NoRes
    /\ UNCHANGED <<userProgress, db, clock>>
    /\ ares' = NoAres
    /\ mail' = NoMail
    /\ UNCHANGED authData

\* Were what sendMail throws to reach the handler's outer catch: 400.
AfterCompletionEmail_Uncaught(outcome, okResponse) ==
    IF outcome = "failed"
      THEN [okResponse EXCEPT !.status = 400, !.body = <<>>]
      ELSE okResponse

\* The response of POST /api/progress once the completion email has been
\* attempted: the mailer logs what sendMail throws and the handler wraps the
\* whole step in a try of its own, so the response is the one already built.
AfterCompletionEmail(outcome, okResponse) == okResponse

\* POST /api/progress
PostProgress(reqBody) ==
    /\ Len(userProgress) < MaxDocs
    /\ IF ~reqBody.valid
         THEN /\ res' = [route |-> "progress", userId |-> reqBody.userId,
                         status |-> 400, body |-> <<>>]
              /\ mail' = NoMail
              /\ UNCHANGED <<user_progress, userProgress>>
         ELSE LET newProgress == NewProgress(reqBody, clock)
                  stored == Append(userProgress, newProgress)
                  user == getUser(users, reqBody.userId)
                  okResponse == [route |-> "progress", userId |-> reqBody.userId,
                                 status |-> 200,
                                 body |-> PostBody(getUserProgress(stored, reqBody.userId),
                                                   newProgress, clock)]
              IN  /\ userProgress' = stored
                  /\ IF reqBody.userId = NoUser
                       THEN /\ res' = [route |-> "progress", userId |-> reqBody.userId,
                                       status |-> 400, body |-> <<>>]
                            /\ mail' = NoMail
                            /\ UNCHANGED user_progress
                       ELSE /\ user_progress' =
                                 IF db THEN Append(user_progress, newProgress) ELSE user_progress
                            /\ IF user # NoUserRecord /\ user.email # NoEmail
                                 THEN \E outcome \in SendOutcomes :
                                        /\ mail' = [kind |-> "completion", to |-> user.email,
                                                    outcome |-> outcome]
                                        /\ res' = AfterCompletionEmail(outcome, okResponse)
                                 ELSE /\ mail' = NoMail
                                      /\ res' = okResponse
    /\ ares' = NoAres
    /\ UNCHANGED <<db, clock>>
    /\ UNCHANGED authData

\* GET /api/progress/stats/:userId
GetStats(userId) ==
    /\ res' = StatsResponse(db, user_progress, userId, clock)
    /\ UNCHANGED <<user_progress, userProgress, db, clock>>
    /\ ares' = NoAres
    /\ mail' = NoMail
    /\ UNCHANGED authData

\* The stats handler over every history the collection can hold.
Next ==
    \/ Tick
    \/ \E u \in UserIds, c \in RawCompletedAt : MongoInsert(u, c)
    \/ \E u \in UserIds : GetStats(u)

Spec == Init /\ [][Next]_vars

\* The histories the application writes itself: progress is posted as time
\* passes, and the stats are read from the mirror.
NextPost ==
    \/ Tick
    \/ \E b \in PostBodies : PostProgress(b)
    \/ \E u \in UserIds : GetStats(u)

SpecPost == Init /\ [][NextPost]_vars

TypeOK ==
    /\ Len(user_progress) <= MaxDocs
    /\ Len(userProgress) <= MaxDocs
    /\ clock \in Times \cup AuthTimes

\* Time passes between the auth requests.
AuthTick ==
    /\ \E t \in AuthTimes : t > clock /\ clock' = t
    /\ res' = NoRes
    /\ ares' = NoAres
    /\ mail' = NoMail
    /\ UNCHANGED <<user_progress, userProgress, db>>
    /\ UNCHANGED authData

progressVars == <<user_progress, userProgress, db, clock>>

\* Where a request that waits for bcrypt.hash is kept: the first free place.
FreeSlot == CHOOSE i \in 1..MaxInflight :
                /\ inflight[i] = NoReq
                /\ \A j \in 1..(i - 1) : inflight[j] # NoReq

\* POST /api/auth/signup/request-code; code is what Math.random() yields
RequestCode(username, email, purpose, code) ==
    LET req == Req("request-code", username, email, "", code, purpose, 0)
        existingUser == FindByUsername(mongoUsers, username)
    IN
    /\ nextSerial < MaxIssues
    /\ res' = NoRes
    /\ UNCHANGED progressVars
    /\ UNCHANGED <<users, mongoUsers, inflight, spent, changedPw>>
    /\ IF username = "" \/ email = NoEmail
         THEN /\ ares' = Answer("request-code", 400, "Missing username or email", req)
              /\ mail' = NoMail
              /\ UNCHANGED <<otps, nextSerial, issued>>
       ELSE IF ~db
         THEN /\ ares' = Answer("request-code", 500, "Database not available", req)
              /\ mail' = NoMail
              /\ UNCHANGED <<otps, nextSerial, issued>>
       ELSE IF purpose = "signup" /\ existingUser # NoUserRecord
         THEN /\ ares' = Answer("request-code", 400, "User already exists", req)
              /\ mail' = NoMail
              /\ UNCHANGED <<otps, nextSerial, issued>>
       ELSE IF purpose = "password-change" /\ existingUser = NoUserRecord
         THEN /\ ares' = Answer("request-code", 400, "User does not exist", req)
              /\ mail' = NoMail
              /\ UNCHANGED <<otps, nextSerial, issued>>
       ELSE IF purpose = "password-change" /\ existingUser.email # email
         THEN /\ ares' = Answer("request-code", 400, "Email does not match registered email", req)
              /\ mail' = NoMail
              /\ UNCHANGED <<otps, nextSerial, issued>>
       ELSE /\ nextSerial' = nextSerial + 1
            /\ issued' = [issued EXCEPT ![username] =
                             [code |-> code, email |-> email, at |-> clock,
                              serial |-> nextSerial + 1]]
            /\ otps' = UpsertOtp(otps, username,
                                  [otp |-> code, email |-> email,
                                   expiresAt |-> clock + OtpTtlMs, serial |-> nextSerial + 1])
            /\ \E outcome \in SendOutcomes :
                  mail' = [kind |-> "otp", to |-> email, outcome |-> outcome]
            /\ ares' = Answer("request-code", 200, "success",
                              [req EXCEPT !.serial = nextSerial + 1])

\* POST /api/auth/signup/verify, up to bcrypt.hash: the code is looked up and
\* checked, and a registration checks that the username is free.
VerifyCheck(username, email, password, code, purpose) ==
    LET slot == FreeSlot
        req == Req("verify", username, email, password, code, purpose, 0)
        otpEntry == FindOtp(otps, username, email)
    IN
    /\ \E i \in 1..MaxInflight : inflight[i] = NoReq
    /\ res' = NoRes
    /\ mail' = NoMail
    /\ UNCHANGED progressVars
    /\ UNCHANGED <<users, mongoUsers, nextSerial, issued, spent, changedPw>>
    /\ IF ~db
         THEN /\ ares' = Answer("verify", 500, "Database not available", req)
              /\ UNCHANGED <<otps, inflight>>
       ELSE IF otpEntry = NoOtp
         THEN /\ ares' = Answer("verify", 400, "No OTP found for this user", req)
              /\ UNCHANGED <<otps, inflight>>
       ELSE IF clock > otpEntry.expiresAt
         THEN /\ otps' = DeleteOtp(otps, username, email)
              /\ ares' = Answer("verify", 400, "Code expired", req)
              /\ UNCHANGED inflight
       ELSE IF otpEntry.otp # code
         THEN /\ ares' = Answer("verify", 400, "Invalid code", req)
              /\ UNCHANGED <<otps, inflight>>
       ELSE IF purpose # "password-change"
               /\ (\/ FindByUsername(mongoUsers, username) # NoUserRecord
                   \/ getUserByUsername(users, username) # NoUserRecord)
         THEN /\ ares' = Answer("verify", 400, "Username already taken", req)
              /\ UNCHANGED <<otps, inflight>>
       ELSE /\ inflight' = [inflight EXCEPT ![slot] = [req EXCEPT !.serial = otpEntry.serial]]
            /\ ares' = NoAres
            /\ UNCHANGED otps

\* db.collection("users").insertOne under the unique index on username:
\* the collection after the insert, unchanged when the insert fails (E11000)
InsertUser(coll, doc) ==
    IF FindByUsername(coll, doc.username) # NoUserRecord THEN coll ELSE Append(coll, doc)

\* POST /api/auth/signup/verify, from bcrypt.hash on
VerifyCommit(slot) ==
    LET req == inflight[slot]
        hashedPassword == Hash(req.password)
    IN
    /\ req.kind = "verify"
    /\ inflight' = [inflight EXCEPT ![slot] = NoReq]
    /\ res' = NoRes
    /\ mail' = NoMail
    /\ UNCHANGED progressVars
    /\ UNCHANGED <<nextSerial, issued>>
    /\ otps' = DeleteOtp(otps, req.username, req.email)
    /\ spent' = spent \cup {req.serial}
    /\ IF req.purpose = "password-change"
         THEN /\ mongoUsers' = UpdatePassword(mongoUsers, req.username, hashedPassword)
              /\ changedPw' = IF FindByUsername(mongoUsers, req.username) # NoUserRecord
                                 THEN [changedPw EXCEPT ![req.username] = req.password]
                                 ELSE changedPw
              /\ ares' = Answer("verify", 200, "success", req)
              /\ UNCHANGED users
         ELSE LET user == NewUser(users, req.username, hashedPassword, req.email)
              IN  /\ users' = Append(users, user)
                  /\ mongoUsers' = InsertUser(mongoUsers, user)
                  /\ ares' = Answer("verify", 201, "created", req)
                  /\ UNCHANGED changedPw

\* POST /api/auth/register, up to bcrypt.hash: the body parses and the
\* username is looked up in Mongo and in memory.
RegisterCheck(username, email, password) ==
    LET slot == FreeSlot
        req == Req("register", username, email, password, "", "", 0)
    IN
    /\ \E i \in 1..MaxInflight : inflight[i] = NoReq
    /\ res' = NoRes
    /\ mail' = NoMail
    /\ UNCHANGED progressVars
    /\ UNCHANGED <<users, mongoUsers, otps, nextSerial, issued, spent, changedPw>>
    /\ IF \/ db /\ FindByUsername(mongoUsers, username) # NoUserRecord
          \/ getUserByUsername(users, username) # NoUserRecord
         THEN /\ ares' = Answer("register", 400, "Username already taken", req)
              /\ UNCHANGED inflight
         ELSE /\ inflight' = [inflight EXCEPT ![slot] = req]
              /\ ares' = NoAres

\* POST /api/auth/register, from bcrypt.hash on
RegisterCommit(slot) ==
    LET req == inflight[slot]
        user == NewUser(users, req.username, Hash(req.password), req.email)
    IN
    /\ req.kind = "register"
    /\ inflight' = [inflight EXCEPT ![slot] = NoReq]
    /\ res' = NoRes
    /\ mail' = NoMail
    /\ UNCHANGED progressVars
    /\ UNCHANGED <<otps, nextSerial, issued, spent, changedPw>>
    /\ users' = Append(users, user)
    /\ IF db /\ FindByUsername(mongoUsers, req.username) # NoUserRecord
         THEN /\ ares' = Answer("register", 400, "Username already taken", req)
              /\ UNCHANGED mongoUsers
         ELSE /\ mongoUsers' = IF db THEN InsertUser(mongoUsers, user) ELSE mongoUsers
              /\ ares' = Answer("register", 201, "created", req)

\* The status and message of POST /api/auth/login, and the address the
\* thanks email goes to
LoginAnswer(memUsers, connected, coll, username, password) ==
    LET user == getUserByUsername(memUsers, username)
        userFromMongo == IF connected THEN FindByUsername(coll, username) ELSE NoUserRecord
        found == IF user # NoUserRecord THEN user ELSE userFromMongo
    IN  IF username = "" \/ password = ""
          THEN [status |-> 400, message |-> "Username and password are required", email |-> NoEmail]
        ELSE IF found = NoUserRecord
          THEN [status |-> 401, message |-> "Invalid credentials", email |-> NoEmail]
        ELSE IF ~Compare(password, found.password)
          THEN [status |-> 401, message |-> "Invalid credentials", email |-> NoEmail]
        ELSE [status |-> 200, message |-> "Login successful", email |-> found.email]

\* POST /api/auth/login; the thanks email is started and not waited for
Login(username, password) ==
    LET a == LoginAnswer(users, db, mongoUsers, username, password)
    IN
    /\ res' = NoRes
    /\ ares' = Answer("login", a.status, a.message, Req("login", username, "", password, "", "", 0))
    /\ mail' = IF a.status = 200 /\ a.email # NoEmail
                 THEN [kind |-> "login", to |-> a.email, outcome |-> "pending"]
                 ELSE NoMail
    /\ UNCHANGED progressVars
    /\ UNCHANGED authData

\* The promise of sendLoginThanksEmail settles after the response is written.
MailSettle(outcome) ==
    /\ mail.outcome = "pending"
    /\ mail' = [mail EXCEPT !.outcome = outcome]
    /\ UNCHANGED <<res, ares>>
    /\ UNCHANGED progressVars
    /\ UNCHANGED authData

RegisterEmails == {"a@x", NoEmail}
RegisterPasswords == {"p1"}
VerifyPasswords == {"p2"}

\* Registration, password change and login, with requests that overlap.
NextAuth ==
    \/ AuthTick
    \/ \E u \in UserNames, e \in Emails, p \in Purposes, c \in Codes : RequestCode(u, e, p, c)
    \/ \E u \in UserNames, e \in Emails, pw \in VerifyPasswords, c \in Codes,
          p \in Purposes \ {"other"} : VerifyCheck(u, e, pw, c, p)
    \/ \E i \in 1..MaxInflight : VerifyCommit(i)
    \/ \E u \in UserNames, pw \in RegisterPasswords : RegisterCheck(u, "a@x", pw)
    \/ \E i \in 1..MaxInflight : RegisterCommit(i)
    \/ \E u \in UserNames, pw \in Passwords : Login(u, pw)
    \/ \E o \in SendOutcomes : MailSettle(o)

SpecAuth == Init /\ [][NextAuth]_vars

\* The progress posted by users who may have registered.
NotifyBodies == { b \in PostBodies : b.valid /\ b.userId # NoUser }

\* Users register with or without an email, log in and post progress; every
\* email sent may fail.
NextNotify ==
    \/ AuthTick
    \/ \E u \in UserNames, e \in RegisterEmails, pw \in RegisterPasswords : RegisterCheck(u, e, pw)
    \/ \E i \in 1..MaxInflight : RegisterCommit(i)
    \/ \E u \in UserNames, pw \in Passwords : Login(u, pw)
    \/ \E o \in SendOutcomes : MailSettle(o)
    \/ \E b \in NotifyBodies : PostProgress(b)

SpecNotify == Init /\ [][NextNotify]_vars
----------------------------------------------------------------------------
(* Calendar notions the statements below are measured against *)

\* What the stats handler has just read and answered from.
StatsAnswered == res.route = "stats" /\ res.status = 200
History == FindByUser(user_progress, res.userId)

\* The entries of a history whose completedAt is a date.
ValidEntries(h) == { i \in 1..Len(h) : h[i].completedAt.kind = "iso" }
DayOfEntry(h, i) == EpochDay(h[i].completedAt.t)

\* The calendar days that have a completion.
DaysOf(h) == { DayOfEntry(h, i) : i \in ValidEntries(h) }

MaxOf(S) == CHOOSE m \in S : \A x \in S : x <= m
MinOf(S) == CHOOSE m \in S : \A x \in S : m <= x

\* The days of S from day d on that follow d without a gap.
RunFrom(S, d) == { e \in S : e >= d /\ \A f \in d..e : f \in S }

\* The maximal run of consecutive days of S that ends at its last day.
TrailingRun(S) == IF S = {} THEN {} ELSE { d \in S : \A f \in d..MaxOf(S) : f \in S }

\* The length of the longest run of consecutive days of S.
LongestRunLength(S) ==
    IF S = {} THEN 0 ELSE MaxOf({ Cardinality(RunFrom(S, d)) : d \in S })

\* How many completions of h fall on the days of D.
EntriesOn(h, D) == Cardinality({ i \in ValidEntries(h) : DayOfEntry(h, i) \in D })

----------------------------------------------------------------------------
(* C1: the currentStreak of the stats result is the number of distinct     *)
(* calendar days in the maximal run of consecutive calendar days that ends *)
(* at the most recent completion day, whatever the times of day.           *)
C1_CurrentStreakIsTrailingCalendarRun ==
    StatsAnswered => res.body.currentStreak = Cardinality(TrailingRun(DaysOf(History)))

(* C2: the longestStreak of the stats result is the length, in distinct    *)
(* calendar days, of the longest run of consecutive calendar days that     *)
(* each have a completion; 0 when there is no valid day.                   *)
C2_LongestStreakIsLongestCalendarRun ==
    StatsAnswered => res.body.longestStreak = LongestRunLength(DaysOf(History))

(* C3: a further completion, at any time of a calendar day that already    *)
(* has one, changes none of currentStreak, longestStreak, isFirstOfMonth:  *)
(* of the stats result, and of the streak POST /api/progress answers with. *)
C3_SameDayCompletionChangesNothing ==
    /\ StatsAnswered =>
          \A t \in Times :
             EpochDay(t) \in DaysOf(History) =>
                StatsBody(Append(History, [userId |-> res.userId, completedAt |-> ToISOString(t)]),
                          clock) = res.body
    /\ (res.route = "progress" /\ res.status = 200) =>
          LET all == getUserProgress(userProgress, res.userId)
              before == SubSeq(all, 1, Len(all) - 1)
          IN  EpochDay(clock) \in DaysOf(before) =>
                 /\ res.body.streak = CurrentStreak(Dates(before))
                 /\ res.body.isFirstOfMonth = IsFirstOfMonth(Dates(before), clock)

(* C4: a streak never spans a gap day: currentStreak counts no more than   *)
(* the completions on the trailing run of consecutive calendar days, and   *)
(* longestStreak no more than the completions on one such run.             *)
C4_StreakNeverSpansGapDay ==
    StatsAnswered =>
       LET S == DaysOf(History)
       IN  /\ res.body.currentStreak <= EntriesOn(History, TrailingRun(S))
           /\ \E d \in S \cup {0} :
                 res.body.longestStreak <= EntriesOn(History, RunFrom(S, d))

(* C5: the streaks are anchored to the last recorded day, not to now: the  *)
(* stats answer carries the currentStreak and longestStreak it would carry *)
(* at every other reading of the clock.                                    *)
C5_StreaksIndependentOfNow ==
    StatsAnswered =>
       \A n \in Times :
          LET other == StatsResponse(db, user_progress, res.userId, n).body
          IN  /\ other.currentStreak = res.body.currentStreak
              /\ other.longestStreak = res.body.longestStreak

\* A streak of two days is answered on a day after the last completion day.
C5_Witness ==
    /\ StatsAnswered
    /\ res.body.currentStreak >= 2
    /\ EpochDay(clock) > MaxOf(DaysOf(History))

\* The rearrangements of a history.
Rearrangements(h) ==
    LET n == Len(h)
        perms == { f \in [1..n -> 1..n] : \A i, j \in 1..n : f[i] = f[j] => i = j }
    IN  { [i \in 1..n |-> h[f[i]]] : f \in perms }

(* C6: the stats answer depends only on the multiset of completions and on *)
(* now: every rearrangement of the history gives the same answer, and      *)
(* answering changes neither store.                                        *)
C6_OrderIndependentAndStateless ==
    /\ [](StatsAnswered => \A h \in Rearrangements(History) : StatsBody(h, clock) = res.body)
    /\ [][res'.route = "stats" =>
             /\ user_progress' = user_progress
             /\ userProgress' = userProgress]_vars

\* A two-day streak is answered from a history stored latest day first.
C6_Witness ==
    /\ StatsAnswered
    /\ res.body.currentStreak = 2
    /\ \E i, j \in ValidEntries(History) :
          i < j /\ History[i].completedAt.t > History[j].completedAt.t

\* The completions of h in the calendar month and year of now.
EntriesInMonth(h, now) ==
    { i \in ValidEntries(h) :
         /\ CivilFromDays(DayOfEntry(h, i)).year = CivilFromDays(EpochDay(now)).year
         /\ CivilFromDays(DayOfEntry(h, i)).month = CivilFromDays(EpochDay(now)).month }

\* The earliest completion of the month of now falls on the day of now.
EarliestOfMonthIsToday(h, now) ==
    \E i \in EntriesInMonth(h, now) :
       /\ \A j \in EntriesInMonth(h, now) : h[i].completedAt.t <= h[j].completedAt.t
       /\ DayOfEntry(h, i) = EpochDay(now)

(* C7: isFirstOfMonth is true exactly when the history has a completion in *)
(* the calendar month and year of now and the earliest such completion     *)
(* falls on the calendar day of now.                                       *)
C7_FirstOfMonthIffEarliestIsToday ==
    StatsAnswered => (res.body.isFirstOfMonth <=> EarliestOfMonthIsToday(History, clock))

\* The flag is answered true although an earlier month has a completion.
C7_Witness ==
    /\ StatsAnswered
    /\ res.body.isFirstOfMonth
    /\ \E i \in ValidEntries(History) : i \notin EntriesInMonth(History, clock)

\* The history without the entries whose completedAt is missing or no date.
WithoutMalformed(h) == SelectSeq(h, LAMBDA p : p.completedAt.kind = "iso")

ZeroBody == [currentStreak |-> 0, longestStreak |-> 0, isFirstOfMonth |-> FALSE]

(* C8: malformed timestamps are tolerated by exclusion: the stats handler  *)
(* answers 200 with the result of the history without its unparseable and  *)
(* missing completedAt, and with the zero result when no entry is valid.   *)
C8_MalformedExcluded ==
    (res.route = "stats" /\ db) =>
       /\ res.status = 200
       /\ res.body = StatsBody(WithoutMalformed(History), clock)
       /\ (ValidEntries(History) = {} => res.body = ZeroBody)

\* A two-day streak is answered from a history that holds a malformed entry.
C8_Witness ==
    /\ StatsAnswered
    /\ ValidEntries(History) # 1..Len(History)
    /\ res.body.currentStreak = 2

(* C9: for an empty completion history and any now the result is           *)
(* currentStreak 0, longestStreak 0 and isFirstOfMonth false.              *)
C9_EmptyHistoryIsZero ==
    (StatsAnswered /\ History = <<>>) => res.body = ZeroBody

\* The stats of an empty history are answered, later than the first instant.
C9_Witness ==
    /\ StatsAnswered
    /\ History = <<>>
    /\ clock > 0

(* C10: a history with exactly one valid completion yields currentStreak 1 *)
(* and longestStreak 1, and isFirstOfMonth true when that completion falls *)
(* on the calendar day of now.                                             *)
C10_SingleCompletion ==
    (StatsAnswered /\ Cardinality(ValidEntries(History)) = 1) =>
       /\ res.body.currentStreak = 1
       /\ res.body.longestStreak = 1
       /\ (DaysOf(History) = {EpochDay(clock)} => res.body.isFirstOfMonth)

\* The one valid completion is of today, and of a later day than the first.
C10_Witness ==
    /\ StatsAnswered
    /\ Cardinality(ValidEntries(History)) = 1
    /\ DaysOf(History) = {EpochDay(clock)}
    /\ clock >= MsPerDay
    /\ res.body.isFirstOfMonth

----------------------------------------------------------------------------
\* How often record r occurs in the sequence s.
CountIn(s, r) == Cardinality({ i \in 1..Len(s) : s[i] = r })

Range(s) == { s[i] : i \in 1..Len(s) }

(* C12: the in-memory store is a complete history provider: getUserProgress *)
(* of a user returns exactly the stored records of that user, each as often *)
(* as it was created, and none of another user; a step only ever appends    *)
(* the record just created and leaves every stored record as it was.        *)
C12_StoreIsCompleteHistory ==
    /\ [](\A u \in PostUserIds \cup {NoUser} :
             \A r \in Range(userProgress) \cup Range(getUserProgress(userProgress, u)) :
                CountIn(getUserProgress(userProgress, u), r)
                   = IF r.userId = u THEN CountIn(userProgress, r) ELSE 0)
    /\ [][\/ userProgress' = userProgress
          \/ \E u \in PostUserIds \cup {NoUser} :
                userProgress' = Append(userProgress,
                                       [userId |-> u, completedAt |-> ToISOString(clock)])]_vars

\* The store holds records of two users and one user's progress is answered.
C12_Witness ==
    /\ res.route = "progress" /\ res.status = 200
    /\ \E i, j \in 1..Len(userProgress) :
          /\ userProgress[i].userId = res.userId
          /\ userProgress[j].userId \in PostUserIds \ {res.userId}

(* C13: for every completion history the stats result has                  *)
(* currentStreak <= longestStreak.                                         *)
C13_CurrentAtMostLongest ==
    StatsAnswered => res.body.currentStreak <= res.body.longestStreak

\* An earlier run is longer than the one the history ends with.
C13_Witness ==
    /\ StatsAnswered
    /\ res.body.currentStreak >= 1
    /\ res.body.currentStreak < res.body.longestStreak

(* C14: the two copies of the streak logic agree: for the history and the  *)
(* now of a stats answer, the streak and the isFirstOfMonth that POST      *)
(* /api/progress computes are the currentStreak and the isFirstOfMonth     *)
(* answered.                                                               *)
C14_CopiesAgree ==
    StatsAnswered =>
       LET post == PostBody(History, [userId |-> res.userId, completedAt |-> ToISOString(clock)],
                            clock)
       IN  /\ post.streak = res.body.currentStreak
           /\ post.isFirstOfMonth = res.body.isFirstOfMonth

\* A two-day streak over three completions, two of them at the same instant.
C14_Witness ==
    /\ StatsAnswered
    /\ res.body.currentStreak = 2
    /\ \E i, j \in ValidEntries(History) :
          i # j /\ History[i].completedAt.t = History[j].completedAt.t

(* C20: a POST /api/progress without userId is answered 400 and records    *)
(* nothing: the in-memory progress store holds what it held before.        *)
C20_NoUserIdRecordsNothing ==
    [][(res'.route = "progress" /\ res'.status = 400 /\ res'.userId = NoUser)
          => userProgress' = userProgress]_vars

----------------------------------------------------------------------------
(* Notification *)

\* C11: email notification is best-effort. Whatever becomes of the
\* routine-completion email, the progress request is answered 200 with the
\* streak that counts the new record, and the record is in the store; when the
\* login-thanks email settles, in failure or not, the login response that was
\* written stays as it is and no progress record is touched.
C11_EmailIsBestEffort ==
    /\ []((res.route = "progress" /\ mail.kind = "completion")
            => /\ res.status = 200
               /\ res.body.streak >= 1
               /\ userProgress # <<>>
               /\ userProgress[Len(userProgress)]
                     = [userId |-> res.userId, completedAt |-> ToISOString(clock)])
    /\ [][(mail.kind = "login" /\ mail.outcome = "pending" /\ mail'.kind = "login"
            /\ mail'.outcome # "pending")
             => /\ ares' = ares
                /\ ares.status = 200
                /\ userProgress' = userProgress]_vars

\* The completion email of a stored record has failed.
C11_Witness ==
    /\ res.route = "progress"
    /\ mail.kind = "completion"
    /\ mail.outcome = "failed"
    /\ res.status = 200
    /\ Len(userProgress) >= 2

\* The mail server has answered the send of an email: it is no longer pending.
Settled(m) == m.kind \in {"login", "completion"} /\ m.outcome \in {"sent", "failed"}

\* C21: notification sending is fire-and-forget. Neither the login nor the
\* progress handler waits for its email: the answer of the mail server to a
\* send is learnt only in a step of its own, taken while the send is pending
\* and after the response was written, never in the step that writes the
\* response.
C21_ResponseNeverWaitsForEmail ==
    [][(Settled(mail') /\ mail' # mail)
         => /\ mail.outcome = "pending"
            /\ mail.kind = mail'.kind
            /\ res' = res
            /\ ares' = ares]_vars

----------------------------------------------------------------------------
(* Registration, verification codes and passwords *)

Slots == 1..MaxInflight

\* The step in which the verify request of place i writes its user or password.
VerifyCommits(i) == inflight[i].kind = "verify" /\ inflight'[i] = NoReq

\* The step in which a verify request passes the checks of its code.
VerifyAdmitted(i) == inflight[i] = NoReq /\ inflight'[i].kind = "verify"

\* C15: usernames stay unique. Whatever the interleaving of register and
\* verify requests, the in-memory store never holds two users with the same
\* username, and a request answered 400 "Username already taken" has added
\* no user.
C15_UsernamesStayUnique ==
    /\ [](\A i, j \in 1..Len(users) : users[i].username = users[j].username => i = j)
    /\ [][(ares'.status = 400 /\ ares'.message = "Username already taken")
             => users' = users]_vars

\* C16: verify changes the stored password of a user only with a code that
\* request-code issued to the registered email of that user.
C16_PasswordChangeNeedsRegisteredEmail ==
    [][\A i \in Slots :
         LET before == FindByUsername(mongoUsers, inflight[i].username)
             after == FindByUsername(mongoUsers', inflight[i].username)
         IN  (VerifyCommits(i) /\ before # NoUserRecord /\ after.password # before.password)
                => inflight[i].email = before.email]_vars

\* C17: once a password change has succeeded for a user, a login of that user
\* with the new password succeeds and a login with any other password is
\* answered 401.
C17_LoginFollowsPasswordChange ==
    (ares.route = "login" /\ changedPw[ares.username] # "")
       => IF ares.password = changedPw[ares.username]
            THEN ares.status = 200
            ELSE ares.status = 401

C19_CodeIsSingleUse ==
    [][(ares'.route = "verify" /\ ares'.status \in {200, 201})
         => ares'.serial \notin spent]_vars


====
